---- MODULE Spec2Model ----
(***************************************************************************)
(* Model of the orchestrator's delegation client,                          *)
(* translation_orchestrator_agent/a2a_translation_tools.py:                *)
(* _call_a2a_agent sends one message to a remote A2A agent, then polls the *)
(* task the remote created until it reads a terminal state, and turns      *)
(* every outcome into one string.                                          *)
(*                                                                         *)
(* Python strings are sequences of one-character strings, so that          *)
(* formatting (f-strings) is concatenation and "contains"/"starts with"    *)
(* are computed rather than assumed.  Optional values are <<>> (None) or   *)
(* <<v>>.  One action is one stretch of code between two awaits.           *)
(***************************************************************************)
EXTENDS Integers, Sequences, FiniteSets, TLC

\* ---------------------------------------------------------------- bounds
\* get-task requests one call may issue in the model (the code has no bound)
MaxPolls == 3
\* artifacts per task, and parts per message and per task (over all its
\* artifacts), that the remote may produce
MaxArtifacts == 2
MaxParts == 2
\* ADK events one run of an executor may read, and cancel requests per run
MaxEvents == 2
MaxCancels == 2
\* parts of the message a request carries
MaxMessageParts == 1

\* ------------------------------------------------------- string literals
\* "spanish_translator"
SPANISH_AGENT_ID ==
    <<"s", "p", "a", "n", "i", "s", "h", "_", "t", "r", "a", "n", "s", "l", "a", "t", "o", "r">>

\* "mcp_brave_search_agent_adk"
BRAVE_SEARCH_AGENT_ID ==
    <<"m", "c", "p", "_", "b", "r", "a", "v", "e", "_", "s", "e", "a", "r", "c", "h", "_", "a", "g", "e", "n", "t", "_", "a", "d", "k">>

\* "Error calling "
ErrorCallingPrefix ==
    <<"E", "r", "r", "o", "r", " ", "c", "a", "l", "l", "i", "n", "g", " ">>

\* ": "
ColonSep ==
    <<":", " ">>

\* "Unexpected response from "
UnexpectedResponsePrefix ==
    <<"U", "n", "e", "x", "p", "e", "c", "t", "e", "d", " ", "r", "e", "s", "p", "o", "n", "s", "e", " ", "f", "r", "o", "m", " ">>

\* "."
Period ==
    <<".">>

\* "Task completed but no text artifact found."
NoTextArtifactMsg ==
    <<"T", "a", "s", "k", " ", "c", "o", "m", "p", "l", "e", "t", "e", "d", " ", "b", "u", "t", " ", "n", "o", " ", "t", "e", "x", "t", " ", "a", "r", "t", "i", "f", "a", "c", "t", " ", "f", "o", "u", "n", "d", ".">>

\* "Task failed without specific error."
DefaultTaskError ==
    <<"T", "a", "s", "k", " ", "f", "a", "i", "l", "e", "d", " ", "w", "i", "t", "h", "o", "u", "t", " ", "s", "p", "e", "c", "i", "f", "i", "c", " ", "e", "r", "r", "o", "r", ".">>

\* "'TaskStatus' object has no attribute 'error'": str(e) of the
\* AttributeError of reading status.error on a status without that field
NoErrorAttributeText ==
    <<"'", "T", "a", "s", "k", "S", "t", "a", "t", "u", "s", "'", " ", "o", "b", "j", "e", "c", "t", " ", "h", "a", "s", " ", "n", "o", " ", "a", "t", "t", "r", "i", "b", "u", "t", "e", " ", "'", "e", "r", "r", "o", "r", "'">>

\* " task failed: "
TaskFailedInfix ==
    <<" ", "t", "a", "s", "k", " ", "f", "a", "i", "l", "e", "d", ":", " ">>

\* "Error polling "
ErrorPollingPrefix ==
    <<"E", "r", "r", "o", "r", " ", "p", "o", "l", "l", "i", "n", "g", " ">>

\* " task: "
TaskColonInfix ==
    <<" ", "t", "a", "s", "k", ":", " ">>

\* "Unexpected polling response from "
UnexpectedPollingPrefix ==
    <<"U", "n", "e", "x", "p", "e", "c", "t", "e", "d", " ", "p", "o", "l", "l", "i", "n", "g", " ", "r", "e", "s", "p", "o", "n", "s", "e", " ", "f", "r", "o", "m", " ">>

\* "Exception calling "
ExceptionCallingPrefix ==
    <<"E", "x", "c", "e", "p", "t", "i", "o", "n", " ", "c", "a", "l", "l", "i", "n", "g", " ">>

\* "Failed to get response from "
FailedToGetResponsePrefix ==
    <<"F", "a", "i", "l", "e", "d", " ", "t", "o", " ", "g", "e", "t", " ", "r", "e", "s", "p", "o", "n", "s", "e", " ", "f", "r", "o", "m", " ">>

\* ""
TxtEmpty ==
    <<>>

\* "Hola"
TxtHola ==
    <<"H", "o", "l", "a">>

\* "Hello"
TxtHello ==
    <<"H", "e", "l", "l", "o">>

\* "quota exceeded"
MsgQuota ==
    <<"q", "u", "o", "t", "a", " ", "e", "x", "c", "e", "e", "d", "e", "d">>

\* "agent unreachable"
MsgUnreachable ==
    <<"a", "g", "e", "n", "t", " ", "u", "n", "r", "e", "a", "c", "h", "a", "b", "l", "e">>

\* "timed out"
ExcTimeout ==
    <<"t", "i", "m", "e", "d", " ", "o", "u", "t">>

\* "AI breakthroughs": a search result
TxtNews ==
    <<"A", "I", " ", "b", "r", "e", "a", "k", "t", "h", "r", "o", "u", "g", "h", "s">>

\* "Error 404 explained": a search result that begins like an error string
TxtErrorNews ==
    <<"E", "r", "r", "o", "r", " ", "4", "0", "4", " ", "e", "x", "p", "l", "a", "i", "n", "e", "d">>

\* "french_translator"
FRENCH_AGENT_ID ==
    <<"f", "r", "e", "n", "c", "h", "_", "t", "r", "a", "n", "s", "l", "a",
    "t", "o", "r">>

\* "Failed to get news: "
FailedToGetNewsPrefix ==
    <<"F", "a", "i", "l", "e", "d", " ", "t", "o", " ", "g", "e", "t", " ",
    "n", "e", "w", "s", ":", " ">>

\* "News results for '"
NewsResultsPrefix ==
    <<"N", "e", "w", "s", " ", "r", "e", "s", "u", "l", "t", "s", " ", "f",
    "o", "r", " ", "'">>

\* "': "
QuoteColonSep ==
    <<"'", ":", " ">>

\* "Error"
ErrorWord ==
    <<"E", "r", "r", "o", "r">>

\* "Unexpected"
UnexpectedWord ==
    <<"U", "n", "e", "x", "p", "e", "c", "t", "e", "d">>

\* "Failed"
FailedWord ==
    <<"F", "a", "i", "l", "e", "d">>

\* "Unsupported translation language: "
UnsupportedLanguagePrefix ==
    <<"U", "n", "s", "u", "p", "p", "o", "r", "t", "e", "d", " ", "t", "r",
    "a", "n", "s", "l", "a", "t", "i", "o", "n", " ", "l", "a", "n", "g", "u",
    "a", "g", "e", ":", " ">>

\* ". Only Spanish and French are supported."
UnsupportedLanguageSuffix ==
    <<".", " ", "O", "n", "l", "y", " ", "S", "p", "a", "n", "i", "s", "h", " ",
    "a", "n", "d", " ", "F", "r", "e", "n", "c", "h", " ", "a", "r", "e", " ",
    "s", "u", "p", "p", "o", "r", "t", "e", "d", ".">>

\* "spanish"
SpanishLower ==
    <<"s", "p", "a", "n", "i", "s", "h">>

\* "french"
FrenchLower ==
    <<"f", "r", "e", "n", "c", "h">>

\* "Spanish": a target_language
LangSpanish ==
    <<"S", "p", "a", "n", "i", "s", "h">>

\* "FRENCH": a target_language
LangFrenchUpper ==
    <<"F", "R", "E", "N", "C", "H">>

\* "German": a target_language
LangGerman ==
    <<"G", "e", "r", "m", "a", "n">>

\* "AI news": a search_query
QueryAINews ==
    <<"A", "I", " ", "n", "e", "w", "s">>

\* "ABCDEFGHIJKLMNOPQRSTUVWXYZ": the letters str.lower changes
UpperLetters ==
    <<"A", "B", "C", "D", "E", "F", "G", "H", "I", "J", "K", "L", "M", "N",
    "O", "P", "Q", "R", "S", "T", "U", "V", "W", "X", "Y", "Z">>

\* "abcdefghijklmnopqrstuvwxyz": and what it changes them to
LowerLetters ==
    <<"a", "b", "c", "d", "e", "f", "g", "h", "i", "j", "k", "l", "m", "n",
    "o", "p", "q", "r", "s", "t", "u", "v", "w", "x", "y", "z">>

\* ------------------------------------------------------ string functions
\* str.__contains__: sub occurs in s
Contains(s, sub) ==
    \E i \in 0..(Len(s) - Len(sub)) : SubSeq(s, i + 1, i + Len(sub)) = sub

\* str.startswith
StartsWith(s, prefix) ==
    /\ Len(prefix) <= Len(s)
    /\ SubSeq(s, 1, Len(prefix)) = prefix

\* str.lower, for the letters A-Z
LowerChar(ch) ==
    IF \E i \in 1..Len(UpperLetters) : UpperLetters[i] = ch
       THEN LowerLetters[CHOOSE i \in 1..Len(UpperLetters) : UpperLetters[i] = ch]
       ELSE ch

Lower(s) == [i \in 1..Len(s) |-> LowerChar(s[i])]

\* ------------------------------------------------------------ data model
NoneV == <<>>
Some(v) == <<v>>

\* a2a.types.TaskState as used by the delegation client
NonTerminalStates == {"submitted", "working", "input-required"}
FailureStates == {"failed", "canceled", "rejected"}
TerminalStates == {"completed"} \cup FailureStates
TaskStates == NonTerminalStates \cup TerminalStates

\* the two call sites' agent ids, and the text payloads of the model
AgentIds == {SPANISH_AGENT_ID, BRAVE_SEARCH_AGENT_ID}
MessageTexts == {TxtHello}
\* texts a remote text part may carry; messages of remote errors; str(e)
PartTexts == {TxtEmpty, TxtHola}
ErrorMessages == {MsgQuota, MsgUnreachable}
ExceptionTexts == {TxtEmpty, ExcTimeout}
\* ids the remote may give a task ("" is a falsy id)
TaskIds == {"", "t1"}

TextPart(t) == [kind |-> "text", text |-> t]
FilePart == [kind |-> "file"]
Parts == {TextPart(t) : t \in PartTexts} \cup {FilePart}
PartLists == UNION {[1..n -> Parts] : n \in 0..MaxParts}
Artifacts == {[parts |-> pl] : pl \in PartLists}
\* the number of parts in a list of artifacts
RECURSIVE TotalParts(_)
TotalParts(al) ==
    IF al = <<>> THEN 0 ELSE Len(al[1].parts) + TotalParts(Tail(al))

ArtifactLists ==
    {al \in UNION {[1..n -> Artifacts] : n \in 0..MaxArtifacts} :
        TotalParts(al) <= MaxParts}

\* ids a stub remote gives its tasks, one per call
StubTaskIds == {"t1", "t2"}
AllTaskIds == TaskIds \cup StubTaskIds

\* status.error of a status object that has no attribute `error` (a status
\* of fields state, message, timestamp): neither None nor an error object
NoErrorAttribute == <<[attribute |-> "missing"]>>

\* a Task as the client reads it: id, status.state, status.error, artifacts
Task(id, state, artifacts, error) ==
    [id |-> id, state |-> state, artifacts |-> artifacts, error |-> error]

\* the tasks a remote can hold under one id
TasksOf(id) ==
    {Task(id, s, NoneV, NoneV) : s \in NonTerminalStates}
    \cup {Task(id, "completed", a, NoneV) :
            a \in {NoneV} \cup {Some(al) : al \in ArtifactLists}}
    \cup {Task(id, s, NoneV, e) : s \in FailureStates,
            e \in {NoneV, NoErrorAttribute}
                  \cup {Some([message |-> m]) : m \in ErrorMessages}}

\* texts a stub remote puts in a text part: two search results and the
\* text of the client's own "no text" string
StubTexts == {TxtNews, TxtErrorNews, NoTextArtifactMsg}

\* the tasks a stub remote reports under one id: working, completed without
\* artifacts, completed with one text part, failed with an error
StubTasksOf(id) ==
    {Task(id, "working", NoneV, NoneV), Task(id, "completed", NoneV, NoneV),
     Task(id, "failed", NoneV, Some([message |-> MsgQuota]))}
    \cup {Task(id, "completed", Some(<<[parts |-> <<TextPart(t)>>]>>), NoneV) :
            t \in StubTexts}

NoTask == [state |-> "absent"]

\* responses of send_message and get_task, as the client's isinstance
\* checks tell them apart
TaskResponse(t) == [kind |-> "task", task |-> t]
MessageResponse(pl) == [kind |-> "message", parts |-> pl]
ErrorResponse(m) == [kind |-> "error", message |-> m]
OtherResponse == [kind |-> "other"]
RaisedException(e) == [kind |-> "exception", msg |-> e]
NoResponse == [kind |-> "none"]

\* what a stretch of the function's body does
Return(s) == [kind |-> "return", value |-> s]
Raise(e) == [kind |-> "raise", exc |-> e]
EnterLoop(id) == [kind |-> "poll", id |-> id]
Continue == [kind |-> "continue"]
FallThrough == [kind |-> "fallthrough"]
NoResult == [kind |-> "none"]

\* ------------------------------------------- _call_a2a_agent, pure parts
\* variant: the remote's message is left out of the string
FormatSendErrorNoMessage(agent_id, m) ==
    ErrorCallingPrefix \o agent_id \o Period

\* f"Error calling {agent_id}: {response.root.error.message}"
FormatSendError(agent_id, m) ==
    ErrorCallingPrefix \o agent_id \o ColonSep \o m

\* f"Unexpected response from {agent_id}."
FormatUnexpectedResponse(agent_id) ==
    UnexpectedResponsePrefix \o agent_id \o Period

\* f"{agent_id} task failed: {error_msg}"
FormatTaskFailed(agent_id, error_msg) ==
    agent_id \o TaskFailedInfix \o error_msg

\* f"Error polling {agent_id} task: {task_response.root.error.message}"
FormatPollError(agent_id, m) ==
    ErrorPollingPrefix \o agent_id \o TaskColonInfix \o m

\* f"Unexpected polling response from {agent_id}."
FormatUnexpectedPolling(agent_id) ==
    UnexpectedPollingPrefix \o agent_id \o Period

\* f"Exception calling {agent_id}: {str(e)}"
FormatException(agent_id, e) ==
    ExceptionCallingPrefix \o agent_id \o ColonSep \o e

\* f"Failed to get response from {agent_id}."
FormatNoResponse(agent_id) ==
    FailedToGetResponsePrefix \o agent_id \o Period

\* for part in artifact.parts: if isinstance(part.root, TextPart): return
RECURSIVE FirstTextInParts(_)
FirstTextInParts(parts) ==
    IF parts = <<>> THEN NoneV
    ELSE IF Head(parts).kind = "text" THEN Some(Head(parts).text)
    ELSE FirstTextInParts(Tail(parts))

\* for artifact in task.artifacts: if artifact.parts: ...
RECURSIVE FirstTextInArtifacts(_)
FirstTextInArtifacts(artifacts) ==
    IF artifacts = <<>> THEN NoneV
    ELSE IF Head(artifacts).parts # <<>>
            /\ FirstTextInParts(Head(artifacts).parts) # NoneV
         THEN FirstTextInParts(Head(artifacts).parts)
    ELSE FirstTextInArtifacts(Tail(artifacts))

\* variant: only the first artifact is searched for a text part
CompletedTextFirstArtifactOnly(task) ==
    IF task.artifacts # NoneV /\ task.artifacts[1] # <<>>
          /\ FirstTextInParts(Head(task.artifacts[1]).parts) # NoneV
    THEN FirstTextInParts(Head(task.artifacts[1]).parts)[1]
    ELSE NoTextArtifactMsg

\* the completed branch: the first text part's text, else the fixed string
CompletedText(task) ==
    IF task.artifacts # NoneV /\ task.artifacts[1] # <<>>
          /\ FirstTextInArtifacts(task.artifacts[1]) # NoneV
    THEN FirstTextInArtifacts(task.artifacts[1])[1]
    ELSE NoTextArtifactMsg

\* error_msg = task.status.error.message if task.status.error else "...":
\* the message of the error, the default text when the error is None, or
\* the AttributeError of a status that has no attribute `error`
ErrorMsgOf(task) ==
    IF task.error = NoErrorAttribute THEN Raise(NoErrorAttributeText)
    ELSE IF task.error # NoneV THEN Return(task.error[1].message)
    ELSE Return(DefaultTaskError)

\* the failed/canceled/rejected branch: the failure string, or the
\* exception raised while the message is read
FailureBranch(agent_id, task) ==
    IF ErrorMsgOf(task).kind = "raise" THEN ErrorMsgOf(task)
    ELSE Return(FormatTaskFailed(agent_id, ErrorMsgOf(task).value))

\* variant: a Task that is already completed in the send response is
\* answered from that response, without polling
SendBodyUsesSnapshot(agent_id, resp) ==
    IF resp.kind = "exception" THEN Raise(resp.msg)
    ELSE IF resp.kind = "task"
         THEN IF resp.task.state = "completed"
                 THEN Return(CompletedText(resp.task))
              ELSE IF resp.task.id # "" THEN EnterLoop(resp.task.id)
              ELSE FallThrough
    ELSE IF resp.kind = "error"
         THEN Return(FormatSendError(agent_id, resp.message))
    ELSE Return(FormatUnexpectedResponse(agent_id))

\* variant: a response of an unknown shape is not reported as unexpected
SendBodyOtherFallsThrough(agent_id, resp) ==
    IF resp.kind = "exception" THEN Raise(resp.msg)
    ELSE IF resp.kind = "task"
         THEN IF resp.task.id # "" THEN EnterLoop(resp.task.id)
              ELSE FallThrough
    ELSE IF resp.kind = "error"
         THEN Return(FormatSendError(agent_id, resp.message))
    ELSE FallThrough

\* the code after `response = await a2a_client.send_message(request)`
\* up to the first `await asyncio.sleep(1)`
SendBody(agent_id, resp) ==
    IF resp.kind = "exception" THEN Raise(resp.msg)
    ELSE IF resp.kind = "task"
         THEN IF resp.task.id # "" THEN EnterLoop(resp.task.id)
              ELSE FallThrough
    ELSE IF resp.kind = "error"
         THEN Return(FormatSendError(agent_id, resp.message))
    ELSE Return(FormatUnexpectedResponse(agent_id))

\* variant: a JSON-RPC error, another shape or an exception is retried
PollBodyRetriesOnError(agent_id, resp) ==
    IF resp.kind = "task"
       THEN IF resp.task.state = "completed"
               THEN Return(CompletedText(resp.task))
            ELSE IF resp.task.state \in FailureStates
               THEN FailureBranch(agent_id, resp.task)
            ELSE Continue
    ELSE Continue

\* variant: failed, canceled and rejected are not recognised as terminal
PollBodyIgnoresFailure(agent_id, resp) ==
    IF resp.kind = "exception" THEN Raise(resp.msg)
    ELSE IF resp.kind = "task"
         THEN IF resp.task.state = "completed"
                 THEN Return(CompletedText(resp.task))
              ELSE Continue
    ELSE IF resp.kind = "error"
         THEN Return(FormatPollError(agent_id, resp.message))
    ELSE Return(FormatUnexpectedPolling(agent_id))

\* variant: rejected is not in the list of failure states
PollBodyIgnoresRejected(agent_id, resp) ==
    IF resp.kind = "exception" THEN Raise(resp.msg)
    ELSE IF resp.kind = "task"
         THEN IF resp.task.state = "completed"
                 THEN Return(CompletedText(resp.task))
              ELSE IF resp.task.state \in {"failed", "canceled"}
                 THEN FailureBranch(agent_id, resp.task)
              ELSE Continue
    ELSE IF resp.kind = "error"
         THEN Return(FormatPollError(agent_id, resp.message))
    ELSE Return(FormatUnexpectedPolling(agent_id))

\* variant: completed is not recognised as terminal
PollBodyCompletedUnhandled(agent_id, resp) ==
    IF resp.kind = "exception" THEN Raise(resp.msg)
    ELSE IF resp.kind = "task"
         THEN IF resp.task.state \in FailureStates
                 THEN FailureBranch(agent_id, resp.task)
              ELSE Continue
    ELSE IF resp.kind = "error"
         THEN Return(FormatPollError(agent_id, resp.message))
    ELSE Return(FormatUnexpectedPolling(agent_id))

\* variant: every terminal state is handled as completed
PollBodyAnyTerminalCompleted(agent_id, resp) ==
    IF resp.kind = "exception" THEN Raise(resp.msg)
    ELSE IF resp.kind = "task"
         THEN IF resp.task.state \in TerminalStates
                 THEN Return(CompletedText(resp.task))
              ELSE Continue
    ELSE IF resp.kind = "error"
         THEN Return(FormatPollError(agent_id, resp.message))
    ELSE Return(FormatUnexpectedPolling(agent_id))

\* variant: the loop gives up when the task is not yet terminal
PollBodyGivesUp(agent_id, resp) ==
    IF resp.kind = "exception" THEN Raise(resp.msg)
    ELSE IF resp.kind = "task"
         THEN IF resp.task.state = "completed"
                 THEN Return(CompletedText(resp.task))
              ELSE IF resp.task.state \in FailureStates
                 THEN FailureBranch(agent_id, resp.task)
              ELSE Return(FormatNoResponse(agent_id))
    ELSE IF resp.kind = "error"
         THEN Return(FormatPollError(agent_id, resp.message))
    ELSE Return(FormatUnexpectedPolling(agent_id))

\* a task id as the text an f-string puts for it
TaskIdText(id) ==
    CASE id = "t1" -> <<"t", "1">>
      [] id = "t2" -> <<"t", "2">>
      [] OTHER -> <<>>

\* variant: the failure string is the logged one, which names the task:
\* f"Task {task_id_to_poll} for {agent_id} failed: {error_msg}"
PollBodyNamesTaskId(agent_id, resp) ==
    IF resp.kind = "exception" THEN Raise(resp.msg)
    ELSE IF resp.kind = "task"
         THEN IF resp.task.state = "completed"
                 THEN Return(CompletedText(resp.task))
              ELSE IF resp.task.state \in FailureStates
                 THEN IF ErrorMsgOf(resp.task).kind = "raise"
                         THEN ErrorMsgOf(resp.task)
                         ELSE Return(<<"T", "a", "s", "k", " ">> \o TaskIdText(resp.task.id)
                                     \o <<" ", "f", "o", "r", " ">> \o agent_id
                                     \o <<" ", "f", "a", "i", "l", "e", "d", ":", " ">>
                                     \o ErrorMsgOf(resp.task).value)
              ELSE Continue
    ELSE IF resp.kind = "error"
         THEN Return(FormatPollError(agent_id, resp.message))
    ELSE Return(FormatUnexpectedPolling(agent_id))

\* the code after `task_response = await a2a_client.get_task(...)` up to
\* the next `await asyncio.sleep(1)`
PollBody(agent_id, resp) ==
    IF resp.kind = "exception" THEN Raise(resp.msg)
    ELSE IF resp.kind = "task"
         THEN IF resp.task.state = "completed"
                 THEN Return(CompletedText(resp.task))
              ELSE IF resp.task.state \in FailureStates
                 THEN FailureBranch(agent_id, resp.task)
              ELSE Continue
    ELSE IF resp.kind = "error"
         THEN Return(FormatPollError(agent_id, resp.message))
    ELSE Return(FormatUnexpectedPolling(agent_id))

\* variant: no except clause, the exception leaves the function
TryExceptMissing(agent_id, effect) ==
    IF effect.kind = "fallthrough"
       THEN Return(FormatNoResponse(agent_id))
    ELSE effect

\* try: ... except Exception as e: return f"Exception calling ..."
\* and the return after the `async with` block
TryExcept(agent_id, effect) ==
    IF effect.kind = "raise"
       THEN Return(FormatException(agent_id, effect.exc))
    ELSE IF effect.kind = "fallthrough"
       THEN Return(FormatNoResponse(agent_id))
    ELSE effect

\* ----------------------------------------------------------------- state
AllCalls == {1, 2}
\* requests an A2A server hands to its executor
ExecRequests == {1, 2}
\* the executor classes of src/: adk_agent_executor.py of
\* translation_orchestrator_agent, search_agent, spanish_translation_agent
\* and code_interpreter_agent
Executors == {"orchestrator", "search", "spanish", "code_interpreter"}
ContextIds == {"ctx1"}
\* each executor has its own session service; sessions are kept by id
SessionKeys == Executors \X ContextIds

VARIABLES
    pc,            \* per call: idle, send_wait, sleeping, get_wait, done
    agentId,       \* per call: agent_id argument
    messageText,   \* per call: message_text argument
    messageId,     \* per call: uuid4 of the message envelope (0: none yet)
    nextUuid,      \* source of fresh message ids
    taskIdToPoll,  \* per call: task_id_to_poll (NoneV until a Task arrives)
    result,        \* per call: how the invocation ended, or NoResult
    requests,      \* per call: requests issued so far, in order
    inflight,      \* per call: requests issued and not yet answered, oldest first
    sendResponse,  \* per call: the response to send_message
    lastPoll,      \* per call: the latest response to get_task
    polls,         \* per call: number of get_task requests issued
    stillWorking,  \* per call: get_task responses that carried a non-terminal task
    remoteTasks,   \* the remote agents' tasks as last reported, by task id
    chainPc,       \* search_and_translate_news_function: idle, searching,
                   \*   translating, done
    searchQuery,   \* its search_query argument
    targetLanguage,\* its target_language argument
    translatedNews,\* the 'translated_news' it returned (NoneV until then)
    execPc,        \* per request, where execute stands: idle, get_session,
                   \*   create_session, events, returned, raised
    executor,      \* per request, the executor class that handles it
    contextId,     \* per request, context.context_id
    currentTask,   \* per request, the state of context.current_task
                   \*   ("none" when there is no current task)
    eventQueue,    \* per request, the updates enqueued so far
    eventsSeen,    \* per request, ADK events read by the async for
    sessions,      \* <<executor, session id>> pairs of the session services
    cancels,       \* per request, cancel calls made
    cancelOutcome, \* per request, how the last cancel call ended
    lastEvent,     \* per request, the ADK event read last (NoneV before)
    createCalls,   \* create_session calls made, per <<executor, session id>>
    cliPc,         \* poll_task_until_completion: idle, get_wait, sleeping,
                   \*   done
    cliTaskId,     \* its task_id argument
    cliPolls,      \* get_task requests it has issued
    cliLast,       \* the get_task response it read last
    cliResult      \* how it ended: the Task or None returned, or a raise

callVars == <<pc, agentId, messageText, messageId, nextUuid, taskIdToPoll,
              result, requests, inflight, sendResponse, lastPoll, polls,
              stillWorking, remoteTasks>>

chainVars == <<chainPc, searchQuery, targetLanguage, translatedNews>>

execVars == <<execPc, executor, contextId, currentTask, eventQueue,
              eventsSeen, sessions, cancels, cancelOutcome, lastEvent,
              createCalls>>

cliVars == <<cliPc, cliTaskId, cliPolls, cliLast, cliResult>>

vars == <<callVars, chainVars, execVars, cliVars>>

SendRequest(agent_id, text, mid) ==
    [kind |-> "send", agentId |-> agent_id, text |-> text, messageId |-> mid]
GetTaskRequest(id) == [kind |-> "get", id |-> id]

Init ==
    /\ pc = [c \in AllCalls |-> "idle"]
    /\ agentId = [c \in AllCalls |-> <<>>]
    /\ messageText = [c \in AllCalls |-> <<>>]
    /\ messageId = [c \in AllCalls |-> 0]
    /\ nextUuid = 1
    /\ taskIdToPoll = [c \in AllCalls |-> NoneV]
    /\ result = [c \in AllCalls |-> NoResult]
    /\ requests = [c \in AllCalls |-> <<>>]
    /\ inflight = [c \in AllCalls |-> <<>>]
    /\ sendResponse = [c \in AllCalls |-> NoResponse]
    /\ lastPoll = [c \in AllCalls |-> NoResponse]
    /\ polls = [c \in AllCalls |-> 0]
    /\ stillWorking = [c \in AllCalls |-> 0]
    /\ remoteTasks = [id \in AllTaskIds |-> NoTask]
    /\ chainPc = "idle"
    /\ searchQuery = <<>>
    /\ targetLanguage = <<>>
    /\ translatedNews = NoneV
    /\ execPc = [r \in ExecRequests |-> "idle"]
    /\ executor = [r \in ExecRequests |-> "none"]
    /\ contextId = [r \in ExecRequests |-> ""]
    /\ currentTask = [r \in ExecRequests |-> "none"]
    /\ eventQueue = [r \in ExecRequests |-> <<>>]
    /\ eventsSeen = [r \in ExecRequests |-> 0]
    /\ sessions = {}
    /\ cancels = [r \in ExecRequests |-> 0]
    /\ cancelOutcome = [r \in ExecRequests |-> NoResult]
    /\ lastEvent = [r \in ExecRequests |-> NoneV]
    /\ createCalls = [k \in SessionKeys |-> 0]
    /\ cliPc = "idle"
    /\ cliTaskId = ""
    /\ cliPolls = 0
    /\ cliLast = NoResponse
    /\ cliResult = NoResult

\* ------------------------------------------------------------- the remote
\* what send_message can come back with; a Task response means the remote
\* created that task, here under the id `id` if that id is unused
SendResponses(id) ==
    (IF remoteTasks[id] = NoTask THEN {TaskResponse(t) : t \in TasksOf(id)}
                                ELSE {})
    \cup {MessageResponse(pl) : pl \in PartLists}
    \cup {ErrorResponse(m) : m \in ErrorMessages}
    \cup {OtherResponse}
    \cup {RaisedException(e) : e \in ExceptionTexts}

\* what get_task(id) can come back with: the task as the remote holds it,
\* a JSON-RPC error, another shape, or a transport exception
GetTaskResponses(id) ==
    (IF remoteTasks[id] = NoTask THEN {}
                                ELSE {TaskResponse(remoteTasks[id])})
    \cup {ErrorResponse(m) : m \in ErrorMessages}
    \cup {OtherResponse}
    \cup {RaisedException(e) : e \in ExceptionTexts}

\* a stub remote: it answers a send with any of its tasks under an unused
\* id, or with an error, another shape or an exception
StubSendResponses(id) ==
    (IF remoteTasks[id] = NoTask THEN {TaskResponse(t) : t \in StubTasksOf(id)}
                                ELSE {})
    \cup {ErrorResponse(MsgUnreachable), OtherResponse,
          RaisedException(ExcTimeout)}

\* a stub remote answers each get_task with any of its tasks, whatever it
\* answered before, or with an error, another shape or an exception
StubGetTaskResponses(id) ==
    {TaskResponse(t) : t \in StubTasksOf(id)}
    \cup {ErrorResponse(MsgQuota), OtherResponse, RaisedException(ExcTimeout)}

\* a remote served by one of the executors: it answers with the task as
\* its task store holds it
StoreTaskIds == {"t1"}

StoreResponses(id) ==
    IF remoteTasks[id] = NoTask THEN {} ELSE {TaskResponse(remoteTasks[id])}

\* the remotes of the model: "consistent" keeps its tasks, "stub" answers
\* anything, "store" answers from an executor's task store
RemoteTaskIds(remote) ==
    IF remote = "stub" THEN StubTaskIds
    ELSE IF remote = "store" THEN StoreTaskIds
    ELSE TaskIds

SendResponsesOf(remote, id) ==
    IF remote = "stub" THEN StubSendResponses(id)
    ELSE IF remote = "store" THEN StoreResponses(id)
    ELSE SendResponses(id)

GetTaskResponsesOf(remote, id) ==
    IF remote = "stub" THEN StubGetTaskResponses(id)
    ELSE IF remote = "store" THEN StoreResponses(id)
    ELSE GetTaskResponses(id)

\* -------------------------------------------------------- _call_a2a_agent
\* entry up to `await a2a_client.send_message(request)`: build the message
\* with a fresh messageId and issue the send
CallA2AAgent(c, agent_id, message_text) ==
    /\ pc[c] = "idle"
    /\ pc' = [pc EXCEPT ![c] = "send_wait"]
    /\ agentId' = [agentId EXCEPT ![c] = agent_id]
    /\ messageText' = [messageText EXCEPT ![c] = message_text]
    /\ messageId' = [messageId EXCEPT ![c] = nextUuid]
    /\ nextUuid' = nextUuid + 1
    /\ requests' = [requests EXCEPT
                      ![c] = Append(@, SendRequest(agent_id, message_text, nextUuid))]
    /\ inflight' = [inflight EXCEPT
                      ![c] = Append(@, SendRequest(agent_id, message_text, nextUuid))]
    /\ UNCHANGED <<taskIdToPoll, result, sendResponse, lastPoll, polls,
                   stillWorking, remoteTasks>>

\* send_message returns (or raises); the response is classified and the
\* call either ends or reaches the first sleep of the poll loop
SendReturnsFrom(c, remote) ==
    /\ pc[c] = "send_wait"
    /\ \E id \in RemoteTaskIds(remote) : \E resp \in SendResponsesOf(remote, id) :
        LET effect == TryExcept(agentId[c], SendBody(agentId[c], resp)) IN
          /\ sendResponse' = [sendResponse EXCEPT ![c] = resp]
          /\ inflight' = [inflight EXCEPT ![c] = Tail(@)]
          /\ remoteTasks' = IF resp.kind = "task"
                               THEN [remoteTasks EXCEPT ![resp.task.id] = resp.task]
                               ELSE remoteTasks
          /\ taskIdToPoll' = IF resp.kind = "task"
                                THEN [taskIdToPoll EXCEPT ![c] = Some(resp.task.id)]
                                ELSE taskIdToPoll
          /\ IF effect.kind = "poll"
                THEN /\ pc' = [pc EXCEPT ![c] = "sleeping"]
                     /\ UNCHANGED result
                ELSE /\ pc' = [pc EXCEPT ![c] = "done"]
                     /\ result' = [result EXCEPT ![c] = effect]
    /\ UNCHANGED <<agentId, messageText, messageId, nextUuid, requests,
                   lastPoll, polls, stillWorking>>

\* the same against the remote of the single-call specification
SendReturns(c) == SendReturnsFrom(c, "consistent")

\* variant: the task is fetched twice per iteration
SleepThenGetTaskTwice(c) ==
    /\ pc[c] = "sleeping"
    /\ polls[c] < MaxPolls
    /\ pc' = [pc EXCEPT ![c] = "get_wait"]
    /\ polls' = [polls EXCEPT ![c] = @ + 2]
    /\ requests' = [requests EXCEPT
                      ![c] = @ \o <<GetTaskRequest(taskIdToPoll[c][1]),
                                    GetTaskRequest(taskIdToPoll[c][1])>>]
    /\ inflight' = [inflight EXCEPT
                      ![c] = Append(@, GetTaskRequest(taskIdToPoll[c][1]))]
    /\ UNCHANGED <<agentId, messageText, messageId, nextUuid, taskIdToPoll,
                   result, sendResponse, lastPoll, stillWorking, remoteTasks>>

\* variant: get_task is started without being awaited
SleepThenGetTaskNoAwait(c) ==
    /\ pc[c] = "sleeping"
    /\ polls[c] < MaxPolls
    /\ pc' = pc
    /\ polls' = [polls EXCEPT ![c] = @ + 1]
    /\ requests' = [requests EXCEPT
                      ![c] = Append(@, GetTaskRequest(taskIdToPoll[c][1]))]
    /\ inflight' = [inflight EXCEPT
                      ![c] = Append(@, GetTaskRequest(taskIdToPoll[c][1]))]
    /\ UNCHANGED <<agentId, messageText, messageId, nextUuid, taskIdToPoll,
                   result, sendResponse, lastPoll, stillWorking, remoteTasks>>

\* `await asyncio.sleep(1)` is over: issue get_task for task_id_to_poll
SleepThenGetTask(c) ==
    /\ pc[c] = "sleeping"
    /\ polls[c] < MaxPolls
    /\ pc' = [pc EXCEPT ![c] = "get_wait"]
    /\ polls' = [polls EXCEPT ![c] = @ + 1]
    /\ requests' = [requests EXCEPT
                      ![c] = Append(@, GetTaskRequest(taskIdToPoll[c][1]))]
    /\ inflight' = [inflight EXCEPT
                      ![c] = Append(@, GetTaskRequest(taskIdToPoll[c][1]))]
    /\ UNCHANGED <<agentId, messageText, messageId, nextUuid, taskIdToPoll,
                   result, sendResponse, lastPoll, stillWorking, remoteTasks>>

\* get_task returns (or raises): a read, which leaves the remote's tasks
\* as they are; the call ends, or goes round the loop to the next sleep
GetTaskReturnsFrom(c, remote) ==
    /\ pc[c] = "get_wait"
    /\ \E resp \in GetTaskResponsesOf(remote, taskIdToPoll[c][1]) :
        LET effect == TryExcept(agentId[c], PollBody(agentId[c], resp)) IN
          /\ lastPoll' = [lastPoll EXCEPT ![c] = resp]
          /\ inflight' = [inflight EXCEPT ![c] = Tail(@)]
          /\ stillWorking' =
                IF resp.kind = "task" /\ resp.task.state \in NonTerminalStates
                   THEN [stillWorking EXCEPT ![c] = @ + 1]
                   ELSE stillWorking
          /\ IF effect.kind = "continue"
                THEN /\ pc' = [pc EXCEPT ![c] = "sleeping"]
                     /\ UNCHANGED result
                ELSE /\ pc' = [pc EXCEPT ![c] = "done"]
                     /\ result' = [result EXCEPT ![c] = effect]
    /\ UNCHANGED <<agentId, messageText, messageId, nextUuid, taskIdToPoll,
                   requests, sendResponse, polls, remoteTasks>>

\* the same against the remote of the single-call specification
GetTaskReturns(c) == GetTaskReturnsFrom(c, "consistent")

\* variant: task_id_to_poll is one variable shared by all invocations
StubSendReturnsSharedTaskId(c) ==
    /\ pc[c] = "send_wait"
    /\ \E id \in StubTaskIds : \E resp \in StubSendResponses(id) :
        LET effect == TryExcept(agentId[c], SendBody(agentId[c], resp)) IN
          /\ sendResponse' = [sendResponse EXCEPT ![c] = resp]
          /\ inflight' = [inflight EXCEPT ![c] = Tail(@)]
          /\ remoteTasks' = IF resp.kind = "task"
                               THEN [remoteTasks EXCEPT ![resp.task.id] = resp.task]
                               ELSE remoteTasks
          /\ taskIdToPoll' = IF resp.kind = "task"
                                THEN [d \in AllCalls |-> Some(resp.task.id)]
                                ELSE taskIdToPoll
          /\ IF effect.kind = "poll"
                THEN /\ pc' = [pc EXCEPT ![c] = "sleeping"]
                     /\ UNCHANGED result
                ELSE /\ pc' = [pc EXCEPT ![c] = "done"]
                     /\ result' = [result EXCEPT ![c] = effect]
    /\ UNCHANGED <<agentId, messageText, messageId, nextUuid, requests,
                   lastPoll, polls, stillWorking>>

\* the send and the poll answered by a stub remote
StubSendReturns(c) == SendReturnsFrom(c, "stub")
StubGetTaskReturns(c) == GetTaskReturnsFrom(c, "stub")

\* ----------------------------------- search_and_translate_news_function
\* the texts and languages the function is called with in the model
SearchQueries == {QueryAINews}
TargetLanguages == {LangSpanish, LangFrenchUpper, LangGerman}

\* search_results.startswith("Error") or .startswith("Unexpected") or
\* .startswith("Failed")
LooksFailed(search_results) ==
    \/ StartsWith(search_results, ErrorWord)
    \/ StartsWith(search_results, UnexpectedWord)
    \/ StartsWith(search_results, FailedWord)

\* f"News results for '{search_query}': {search_results}"
FormatNewsResults(search_query, search_results) ==
    NewsResultsPrefix \o search_query \o QuoteColonSep \o search_results

\* f"Failed to get news: {search_results}"
FormatFailedNews(search_results) ==
    FailedToGetNewsPrefix \o search_results

\* f"Unsupported translation language: {target_language}. Only ..."
FormatUnsupportedLanguage(target_language) ==
    UnsupportedLanguagePrefix \o target_language \o UnsupportedLanguageSuffix

\* the search is call 1, the translation call 2
SearchCall == 1
TranslateCall == 2

\* entry: the search delegation is started, up to its send_message
SearchAndTranslateNews(search_query, target_language) ==
    /\ chainPc = "idle"
    /\ CallA2AAgent(SearchCall, BRAVE_SEARCH_AGENT_ID, search_query)
    /\ chainPc' = "searching"
    /\ searchQuery' = search_query
    /\ targetLanguage' = target_language
    /\ UNCHANGED translatedNews

\* variant: the search result is handed to the translator as it is
SearchReturnedUnwrapped ==
    /\ chainPc = "searching"
    /\ pc[SearchCall] = "done"
    /\ LET search_results == result[SearchCall].value
           text_to_translate == search_results
       IN  IF LooksFailed(search_results)
              THEN /\ chainPc' = "done"
                   /\ translatedNews' = Some(FormatFailedNews(search_results))
                   /\ UNCHANGED callVars
           ELSE IF Lower(targetLanguage) = SpanishLower
              THEN /\ CallA2AAgent(TranslateCall, SPANISH_AGENT_ID, text_to_translate)
                   /\ chainPc' = "translating"
                   /\ UNCHANGED translatedNews
           ELSE IF Lower(targetLanguage) = FrenchLower
              THEN /\ CallA2AAgent(TranslateCall, FRENCH_AGENT_ID, text_to_translate)
                   /\ chainPc' = "translating"
                   /\ UNCHANGED translatedNews
           ELSE /\ chainPc' = "done"
                /\ translatedNews' = Some(FormatUnsupportedLanguage(targetLanguage))
                /\ UNCHANGED callVars
    /\ UNCHANGED <<searchQuery, targetLanguage>>

\* the search call has returned (lines 166-182): a result that looks like
\* a failure ends the function; otherwise the wrapped result is sent to the
\* translator for the language, up to that call's send_message; any other
\* language ends the function
SearchReturned ==
    /\ chainPc = "searching"
    /\ pc[SearchCall] = "done"
    /\ LET search_results == result[SearchCall].value
           text_to_translate == FormatNewsResults(searchQuery, search_results)
       IN  IF LooksFailed(search_results)
              THEN /\ chainPc' = "done"
                   /\ translatedNews' = Some(FormatFailedNews(search_results))
                   /\ UNCHANGED callVars
           ELSE IF Lower(targetLanguage) = SpanishLower
              THEN /\ CallA2AAgent(TranslateCall, SPANISH_AGENT_ID, text_to_translate)
                   /\ chainPc' = "translating"
                   /\ UNCHANGED translatedNews
           ELSE IF Lower(targetLanguage) = FrenchLower
              THEN /\ CallA2AAgent(TranslateCall, FRENCH_AGENT_ID, text_to_translate)
                   /\ chainPc' = "translating"
                   /\ UNCHANGED translatedNews
           ELSE /\ chainPc' = "done"
                /\ translatedNews' = Some(FormatUnsupportedLanguage(targetLanguage))
                /\ UNCHANGED callVars
    /\ UNCHANGED <<searchQuery, targetLanguage>>

\* the translation call has returned: translate_to_*_function wraps its
\* string as {"translated_text": ...} and line 184 returns that string
TranslationReturned ==
    /\ chainPc = "translating"
    /\ pc[TranslateCall] = "done"
    /\ chainPc' = "done"
    /\ translatedNews' = Some(result[TranslateCall].value)
    /\ UNCHANGED <<callVars, searchQuery, targetLanguage>>

\* ------------------------------------------------------- agent executors
\* context.current_task: none, or a task the request continues
CurrentTaskStates == {"none", "input-required"}

\* event.content of an ADK event: None; parts None; parts []; parts that
\* convert_genai_parts_to_a2a filters out (no text, file_data or
\* inline_data, e.g. a function call); parts with text
ContentKinds == {"none", "parts_none", "parts_empty", "filtered", "text"}

\* an ADK event as the executors read it: is_final_response(),
\* get_function_calls() (non-empty only when there are parts), content
AdkEvents ==
    {ev \in [final : BOOLEAN, calls : BOOLEAN, content : ContentKinds] :
        ev.calls => ev.content \in {"filtered", "text"}}

\* `event.content and event.content.parts`
HasParts(ev) == ev.content \in {"filtered", "text"}

\* convert_genai_parts_to_a2a(event.content.parts): the parts kept, or the
\* exception of reading .parts of None or iterating None
ConvertGenaiPartsToA2a(ev) ==
    CASE ev.content = "none" -> Raise("AttributeError")
      [] ev.content = "parts_none" -> Raise("TypeError")
      [] ev.content \in {"parts_empty", "filtered"} -> Return("empty")
      [] ev.content = "text" -> Return("text")

\* updates a TaskUpdater enqueues
StatusUpdate(state, message) ==
    [kind |-> "status", state |-> state, message |-> message]
ArtifactUpdate(parts) == [kind |-> "artifact", parts |-> parts]

\* what the loop body does with one event
Emit(updates, stop) == [kind |-> "emit", updates |-> updates, stop |-> stop]

\* add_artifact(parts); complete(); break
FinalResponse(ev) ==
    IF ConvertGenaiPartsToA2a(ev).kind = "raise"
       THEN ConvertGenaiPartsToA2a(ev)
       ELSE Emit(<<ArtifactUpdate(ConvertGenaiPartsToA2a(ev).value),
                   StatusUpdate("completed", NoneV)>>, TRUE)

\* update_status(TaskState.working, message=new_agent_message(parts))
InterimUpdate(ev) ==
    IF ConvertGenaiPartsToA2a(ev).kind = "raise"
       THEN ConvertGenaiPartsToA2a(ev)
       ELSE Emit(<<StatusUpdate("working",
                                Some(ConvertGenaiPartsToA2a(ev).value))>>,
                 FALSE)

Skip == Emit(<<>>, FALSE)

\* translation_orchestrator_agent, _process_request lines 95-117
OrchestratorProcessEvent(ev) ==
    IF ev.final THEN FinalResponse(ev)
    ELSE IF ev.calls THEN Skip
    ELSE IF HasParts(ev) THEN InterimUpdate(ev)
    ELSE Skip

\* search_agent, _process_request lines 135-163
SearchProcessEvent(ev) ==
    IF ev.final THEN FinalResponse(ev)
    ELSE IF ~ev.calls /\ HasParts(ev) THEN InterimUpdate(ev)
    ELSE Skip

\* spanish_translation_agent, _process_request lines 94-112
SpanishProcessEvent(ev) ==
    IF ev.final THEN FinalResponse(ev)
    ELSE IF ~ev.calls THEN InterimUpdate(ev)
    ELSE Skip

\* code_interpreter_agent, _process_request lines 88-132: only an event
\* with parts is looked at; the artifact is added when parts remain
CodeInterpreterProcessEvent(ev) ==
    IF HasParts(ev)
       THEN IF ev.final
               THEN IF ConvertGenaiPartsToA2a(ev).value # "empty"
                       THEN Emit(<<ArtifactUpdate(ConvertGenaiPartsToA2a(ev).value),
                                   StatusUpdate("completed", NoneV)>>, TRUE)
                       ELSE Emit(<<StatusUpdate("completed", NoneV)>>, TRUE)
               ELSE Skip
       ELSE Skip

ProcessEvent(e, ev) ==
    CASE e = "orchestrator" -> OrchestratorProcessEvent(ev)
      [] e = "search" -> SearchProcessEvent(ev)
      [] e = "spanish" -> SpanishProcessEvent(ev)
      [] e = "code_interpreter" -> CodeInterpreterProcessEvent(ev)

\* UnsupportedOperationError(message=...), as each cancel builds it
CancellationNotSupported == "Cancellation is not supported by this agent."
UnsupportedOperationError(e) ==
    [error |-> "UnsupportedOperationError",
     message |-> IF e = "search" THEN Some(CancellationNotSupported)
                                 ELSE NoneV]

\* the task's state once the queue's updates are applied to it
TaskStateOf(r) ==
    LET statuses == SelectSeq(eventQueue[r], LAMBDA u : u.kind = "status")
    IN  IF statuses = <<>> THEN currentTask[r]
                           ELSE statuses[Len(statuses)].state

\* the kinds of part an A2A message holds: a TextPart, a FilePart whose
\* file is a FileWithUri, a FileWithBytes or something else, a DataPart
A2aPartKinds == {"text", "file_uri", "file_bytes", "file_other", "data"}
Messages == UNION {[1..n -> A2aPartKinds] : n \in 0..MaxMessageParts}

\* convert_a2a_part_to_genai: the GenAI part, or ValueError for a part or
\* a file of another type
ConvertA2aPartToGenai(part) ==
    CASE part = "text" -> Return("text")
      [] part = "file_uri" -> Return("file_data")
      [] part = "file_bytes" -> Return("inline_data")
      [] part = "file_other" -> Raise("ValueError")
      [] part = "data" -> Raise("ValueError")

\* convert_a2a_parts_to_genai: every part converted, in order; the
\* exception of a part that cannot be converted leaves the comprehension
ConvertA2aPartsToGenai(parts) ==
    IF \E i \in 1..Len(parts) : ConvertA2aPartToGenai(parts[i]).kind = "raise"
       THEN Raise("ValueError")
       ELSE Return([i \in 1..Len(parts) |->
                       ConvertA2aPartToGenai(parts[i]).value])

\* execute up to `await get_session` of _upsert_session: submitted when
\* the request has no current task, then working, then the parts of the
\* message are converted; a ValueError of the conversion ends execute
\* before any session is looked up.  Each request has its own event queue.
Execute(r, e, context_id, current_task, message) ==
    /\ execPc[r] \in {"idle", "returned", "raised"}
    /\ execPc' = [execPc EXCEPT ![r] =
            IF ConvertA2aPartsToGenai(message).kind = "raise"
               THEN "raised" ELSE "get_session"]
    /\ executor' = [executor EXCEPT ![r] = e]
    /\ contextId' = [contextId EXCEPT ![r] = context_id]
    /\ currentTask' = [currentTask EXCEPT ![r] = current_task]
    /\ eventQueue' = [eventQueue EXCEPT ![r] =
            IF current_task = "none"
               THEN <<StatusUpdate("submitted", NoneV),
                      StatusUpdate("working", NoneV)>>
               ELSE <<StatusUpdate("working", NoneV)>>]
    /\ eventsSeen' = [eventsSeen EXCEPT ![r] = 0]
    /\ cancels' = [cancels EXCEPT ![r] = 0]
    /\ cancelOutcome' = [cancelOutcome EXCEPT ![r] = NoResult]
    /\ lastEvent' = [lastEvent EXCEPT ![r] = NoneV]
    /\ UNCHANGED <<sessions, createCalls>>

\* get_session returns: an existing session is used and the event stream
\* starts, otherwise create_session is awaited
GetSessionReturns(r) ==
    /\ execPc[r] = "get_session"
    /\ execPc' = [execPc EXCEPT ![r] =
            IF <<executor[r], contextId[r]>> \in sessions
               THEN "events" ELSE "create_session"]
    /\ UNCHANGED <<executor, contextId, currentTask, eventQueue, eventsSeen,
                   sessions, cancels, cancelOutcome, lastEvent, createCalls>>

\* create_session returns the new session and the event stream starts
CreateSessionReturns(r) ==
    /\ execPc[r] = "create_session"
    /\ sessions' = sessions \cup {<<executor[r], contextId[r]>>}
    /\ createCalls' = [createCalls EXCEPT
                         ![<<executor[r], contextId[r]>>] = @ + 1]
    /\ execPc' = [execPc EXCEPT ![r] = "events"]
    /\ UNCHANGED <<executor, contextId, currentTask, eventQueue, eventsSeen,
                   cancels, cancelOutcome, lastEvent>>

\* the async for yields one event and the loop body handles it
NextEvent(r) ==
    /\ execPc[r] = "events"
    /\ eventsSeen[r] < MaxEvents
    /\ \E ev \in AdkEvents :
        LET effect == ProcessEvent(executor[r], ev) IN
          /\ eventsSeen' = [eventsSeen EXCEPT ![r] = @ + 1]
          /\ lastEvent' = [lastEvent EXCEPT ![r] = Some(ev)]
          /\ IF effect.kind = "raise"
                THEN /\ execPc' = [execPc EXCEPT ![r] = "raised"]
                     /\ UNCHANGED eventQueue
                ELSE /\ eventQueue' = [eventQueue EXCEPT
                                         ![r] = @ \o effect.updates]
                     /\ execPc' = [execPc EXCEPT ![r] =
                            IF effect.stop THEN "returned" ELSE "events"]
    /\ UNCHANGED <<executor, contextId, currentTask, sessions, cancels,
                   cancelOutcome, createCalls>>

\* variant: the end of the event stream completes the task
StreamEndsCompletes(r) ==
    /\ execPc[r] = "events"
    /\ execPc' = [execPc EXCEPT ![r] = "returned"]
    /\ eventQueue' = [eventQueue EXCEPT
                        ![r] = Append(@, StatusUpdate("completed", NoneV))]
    /\ UNCHANGED <<executor, contextId, currentTask, eventsSeen,
                   sessions, cancels, cancelOutcome, lastEvent, createCalls>>

\* the event stream ends without a break: execute returns
StreamEnds(r) ==
    /\ execPc[r] = "events"
    /\ execPc' = [execPc EXCEPT ![r] = "returned"]
    /\ UNCHANGED <<executor, contextId, currentTask, eventQueue, eventsSeen,
                   sessions, cancels, cancelOutcome, lastEvent, createCalls>>

\* variant: cancel marks the task canceled before it raises
CancelMarksCanceled(r) ==
    /\ execPc[r] # "idle"
    /\ cancels[r] < MaxCancels
    /\ cancels' = [cancels EXCEPT ![r] = @ + 1]
    /\ cancelOutcome' = [cancelOutcome EXCEPT
                           ![r] = Raise(UnsupportedOperationError(executor[r]))]
    /\ eventQueue' = [eventQueue EXCEPT
                        ![r] = Append(@, StatusUpdate("canceled", NoneV))]
    /\ UNCHANGED <<execPc, executor, contextId, currentTask, eventsSeen,
                   sessions, lastEvent, createCalls>>

\* cancel, for the task of a request an executor has taken up:
\* raise ServerError(error=UnsupportedOperationError(...))
Cancel(r) ==
    /\ execPc[r] # "idle"
    /\ cancels[r] < MaxCancels
    /\ cancels' = [cancels EXCEPT ![r] = @ + 1]
    /\ cancelOutcome' = [cancelOutcome EXCEPT
                           ![r] = Raise(UnsupportedOperationError(executor[r]))]
    /\ UNCHANGED <<execPc, executor, contextId, currentTask, eventQueue,
                   eventsSeen, sessions, lastEvent, createCalls>>

\* --------------------------------------------- a delegation to an executor
\* the task of request r as the server's task store holds it once the
\* queue's updates are applied: the last status, and the artifacts added
ExecutorTask(id, r) ==
    LET arts == SelectSeq(eventQueue[r], LAMBDA u : u.kind = "artifact")
    IN  Task(id, TaskStateOf(r),
             IF arts = <<>> THEN NoneV
             ELSE Some([i \in 1..Len(arts) |->
                          [parts |-> IF arts[i].parts = "text"
                                        THEN <<TextPart(TxtHola)>>
                                        ELSE <<>>]]),
             NoneV)

\* the task store follows the queue of request r
StoreTask(r) ==
    /\ remoteTasks' = [remoteTasks EXCEPT !["t1"] = ExecutorTask("t1", r)']
    /\ UNCHANGED <<pc, agentId, messageText, messageId, nextUuid,
                   taskIdToPoll, result, requests, inflight, sendResponse,
                   lastPoll, polls, stillWorking>>

\* the server hands the message of call c to executor e as request r; the
\* message _call_a2a_agent sends holds one TextPart
DelegatedExecute(c, r, e) ==
    /\ requests[c] # <<>>
    /\ execPc[r] = "idle"
    /\ Execute(r, e, "ctx1", "none", <<"text">>)
    /\ StoreTask(r)

\* the executor reads its next event and the store follows
DelegatedNextEvent(r) == NextEvent(r) /\ StoreTask(r)

\* the event stream of the delegated request ends
DelegatedStreamEnds(r) == StreamEnds(r) /\ StoreTask(r)

StoreSendReturns(c) == SendReturnsFrom(c, "store")
StoreGetTaskReturns(c) == GetTaskReturnsFrom(c, "store")

\* ------------------------------- cli_client.poll_task_until_completion
\* the tasks get_task can report to the CLI client: any state, a failure
\* with or without an error, a completed task with or without a text
CliTasksOf(id) ==
    {Task(id, st, NoneV, NoneV) : st \in TaskStates}
    \cup {Task(id, st, NoneV, Some([message |-> MsgQuota])) :
            st \in FailureStates}
    \cup {Task(id, "completed", Some(<<[parts |-> <<TextPart(TxtHola)>>]>>),
                NoneV)}

\* what get_task(id) can come back with
CliGetTaskResponses(id) ==
    {TaskResponse(t) : t \in CliTasksOf(id)}
    \cup {ErrorResponse(m) : m \in ErrorMessages}
    \cup {OtherResponse}
    \cup {RaisedException(ExcTimeout)}

\* the states for which the loop returns the task (line 47)
CliReturnStates == {"completed", "failed", "canceled"}

\* variant: the task is returned in whatever state it is read
CliPollBodyReturnsAnyTask(resp) ==
    IF resp.kind = "exception" THEN Raise(resp.msg)
    ELSE IF resp.kind = "error" THEN Return(NoneV)
    ELSE IF resp.kind = "task" THEN Return(Some(resp.task))
    ELSE Return(NoneV)

\* one pass of the loop body after get_task (lines 35-52): None for a
\* JSON-RPC error, the task when its state is in the list, another pass
\* for a task in any other state, None for anything else; an exception of
\* get_task is not caught
CliPollBody(resp) ==
    IF resp.kind = "exception" THEN Raise(resp.msg)
    ELSE IF resp.kind = "error" THEN Return(NoneV)
    ELSE IF resp.kind = "task"
            THEN IF resp.task.state \in CliReturnStates
                    THEN Return(Some(resp.task))
                    ELSE Continue
    ELSE Return(NoneV)

\* entry up to the first `await client.get_task(...)`
PollTaskUntilCompletion(task_id) ==
    /\ cliPc = "idle"
    /\ cliPc' = "get_wait"
    /\ cliTaskId' = task_id
    /\ cliPolls' = 1
    /\ UNCHANGED <<cliLast, cliResult>>

\* get_task returns (or raises): the function ends, or sleeps
CliGetTaskReturns ==
    /\ cliPc = "get_wait"
    /\ \E resp \in CliGetTaskResponses(cliTaskId) :
        LET effect == CliPollBody(resp) IN
          /\ cliLast' = resp
          /\ IF effect.kind = "continue"
                THEN /\ cliPc' = "sleeping"
                     /\ UNCHANGED cliResult
                ELSE /\ cliPc' = "done"
                     /\ cliResult' = effect
    /\ UNCHANGED <<cliTaskId, cliPolls>>

\* `await asyncio.sleep(2)` is over: the next get_task is issued
CliSleepThenGetTask ==
    /\ cliPc = "sleeping"
    /\ cliPolls < MaxPolls
    /\ cliPc' = "get_wait"
    /\ cliPolls' = cliPolls + 1
    /\ UNCHANGED <<cliTaskId, cliLast, cliResult>>

\* --------------------------- a remote whose task moves on by itself
\* the remote works on a task it holds, between the requests of the
\* client: a task that is not terminal may be in any state afterwards, a
\* terminal task stays as it is
RemoteTaskMoves(id) ==
    /\ remoteTasks[id] # NoTask
    /\ remoteTasks[id].state \notin TerminalStates
    /\ \E t \in TasksOf(id) : remoteTasks' = [remoteTasks EXCEPT ![id] = t]
    /\ UNCHANGED <<pc, agentId, messageText, messageId, nextUuid,
                   taskIdToPoll, result, requests, inflight, sendResponse,
                   lastPoll, polls, stillWorking>>

\* the remote agent takes up or moves on the task of call c's message: the
\* task may be in any state afterwards, and a terminal task stays as it is
RemoteTaskChanges(c, t) ==
    /\ requests[c] # <<>>
    /\ remoteTasks["t1"].state \notin TerminalStates
    /\ remoteTasks' = [remoteTasks EXCEPT !["t1"] = t]
    /\ UNCHANGED <<pc, agentId, messageText, messageId, nextUuid,
                   taskIdToPoll, result, requests, inflight, sendResponse,
                   lastPoll, polls, stillWorking>>

\* ---------------------------------------------------------- specification
\* one invocation of _call_a2a_agent against a remote that keeps its tasks
\* and works on them on its own
SoloCalls == {1}

Next ==
    \/ \E c \in SoloCalls, a \in AgentIds, m \in MessageTexts :
          CallA2AAgent(c, a, m) /\ UNCHANGED <<chainVars, execVars, cliVars>>
    \/ \E c \in SoloCalls : SendReturns(c) /\ UNCHANGED <<chainVars, execVars, cliVars>>
    \/ \E c \in SoloCalls : SleepThenGetTask(c) /\ UNCHANGED <<chainVars, execVars, cliVars>>
    \/ \E c \in SoloCalls : GetTaskReturns(c) /\ UNCHANGED <<chainVars, execVars, cliVars>>
    \/ RemoteTaskMoves("t1") /\ UNCHANGED <<chainVars, execVars, cliVars>>

Spec == Init /\ [][Next]_vars

\* one invocation of _call_a2a_agent against a stub remote
NextStub ==
    \/ \E c \in SoloCalls, a \in AgentIds, m \in MessageTexts :
          CallA2AAgent(c, a, m) /\ UNCHANGED <<chainVars, execVars, cliVars>>
    \/ \E c \in SoloCalls : StubSendReturns(c) /\ UNCHANGED <<chainVars, execVars, cliVars>>
    \/ \E c \in SoloCalls : SleepThenGetTask(c) /\ UNCHANGED <<chainVars, execVars, cliVars>>
    \/ \E c \in SoloCalls : StubGetTaskReturns(c) /\ UNCHANGED <<chainVars, execVars, cliVars>>

SpecStub == Init /\ [][NextStub]_vars

\* two invocations of _call_a2a_agent running concurrently (two coroutines
\* of one event loop, interleaved at their awaits), each against a stub
\* remote
NextConc ==
    \/ \E c \in AllCalls, a \in AgentIds, m \in MessageTexts :
          CallA2AAgent(c, a, m) /\ UNCHANGED <<chainVars, execVars, cliVars>>
    \/ \E c \in AllCalls : StubSendReturns(c) /\ UNCHANGED <<chainVars, execVars, cliVars>>
    \/ \E c \in AllCalls : SleepThenGetTask(c) /\ UNCHANGED <<chainVars, execVars, cliVars>>
    \/ \E c \in AllCalls : StubGetTaskReturns(c) /\ UNCHANGED <<chainVars, execVars, cliVars>>

SpecConc == Init /\ [][NextConc]_vars

\* one invocation of search_and_translate_news_function, its two
\* delegations answered by stub remotes
NextChain ==
    \/ \E q \in SearchQueries, l \in TargetLanguages :
          SearchAndTranslateNews(q, l) /\ UNCHANGED <<execVars, cliVars>>
    \/ \E c \in AllCalls : StubSendReturns(c) /\ UNCHANGED <<chainVars, execVars, cliVars>>
    \/ \E c \in AllCalls : SleepThenGetTask(c) /\ UNCHANGED <<chainVars, execVars, cliVars>>
    \/ \E c \in AllCalls : StubGetTaskReturns(c) /\ UNCHANGED <<chainVars, execVars, cliVars>>
    \/ SearchReturned /\ UNCHANGED <<execVars, cliVars>>
    \/ TranslationReturned /\ UNCHANGED <<execVars, cliVars>>

SpecChain == Init /\ [][NextChain]_vars

\* one request at a time handed to an executor, cancel calls in between
SoloRequests == {1}

NextExec ==
    \/ \E r \in SoloRequests, e \in Executors, x \in ContextIds,
          t \in CurrentTaskStates, m \in Messages :
          Execute(r, e, x, t, m) /\ UNCHANGED <<callVars, chainVars, cliVars>>
    \/ \E r \in SoloRequests :
          GetSessionReturns(r) /\ UNCHANGED <<callVars, chainVars, cliVars>>
    \/ \E r \in SoloRequests :
          CreateSessionReturns(r) /\ UNCHANGED <<callVars, chainVars, cliVars>>
    \/ \E r \in SoloRequests :
          NextEvent(r) /\ UNCHANGED <<callVars, chainVars, cliVars>>
    \/ \E r \in SoloRequests :
          StreamEnds(r) /\ UNCHANGED <<callVars, chainVars, cliVars>>
    \/ \E r \in SoloRequests :
          Cancel(r) /\ UNCHANGED <<callVars, chainVars, cliVars>>

SpecExec == Init /\ [][NextExec]_vars

\* call 1 delegates to an agent whose executor handles it as request 1
NextDeleg ==
    \/ \E a \in AgentIds, m \in MessageTexts :
          CallA2AAgent(1, a, m) /\ UNCHANGED <<chainVars, execVars, cliVars>>
    \/ \E e \in Executors : DelegatedExecute(1, 1, e) /\ UNCHANGED <<chainVars, cliVars>>
    \/ GetSessionReturns(1) /\ UNCHANGED <<callVars, chainVars, cliVars>>
    \/ CreateSessionReturns(1) /\ UNCHANGED <<callVars, chainVars, cliVars>>
    \/ DelegatedNextEvent(1) /\ UNCHANGED <<chainVars, cliVars>>
    \/ DelegatedStreamEnds(1) /\ UNCHANGED <<chainVars, cliVars>>
    \/ StoreSendReturns(1) /\ UNCHANGED <<chainVars, execVars, cliVars>>
    \/ SleepThenGetTask(1) /\ UNCHANGED <<chainVars, execVars, cliVars>>
    \/ StoreGetTaskReturns(1) /\ UNCHANGED <<chainVars, execVars, cliVars>>

SpecDeleg == Init /\ [][NextDeleg]_vars

\* the CLI client polls one task
NextCli ==
    \/ \E id \in StubTaskIds :
          PollTaskUntilCompletion(id) /\ UNCHANGED <<callVars, chainVars, execVars>>
    \/ CliGetTaskReturns /\ UNCHANGED <<callVars, chainVars, execVars>>
    \/ CliSleepThenGetTask /\ UNCHANGED <<callVars, chainVars, execVars>>

SpecCli == Init /\ [][NextCli]_vars

\* call 1 against a remote whose task moves on by itself; the sleep ends
\* and every get_task is answered
NextLive ==
    \/ \E a \in AgentIds, m \in MessageTexts :
          CallA2AAgent(1, a, m) /\ UNCHANGED <<chainVars, execVars, cliVars>>
    \/ \E t \in CliTasksOf("t1") :
          RemoteTaskChanges(1, t) /\ UNCHANGED <<chainVars, execVars, cliVars>>
    \/ StoreSendReturns(1) /\ UNCHANGED <<chainVars, execVars, cliVars>>
    \/ SleepThenGetTask(1) /\ UNCHANGED <<chainVars, execVars, cliVars>>
    \/ StoreGetTaskReturns(1) /\ UNCHANGED <<chainVars, execVars, cliVars>>

SpecLive ==
    /\ Init
    /\ [][NextLive]_vars
    /\ WF_vars(SleepThenGetTask(1) /\ UNCHANGED <<chainVars, execVars, cliVars>>)
    /\ WF_vars(StoreGetTaskReturns(1) /\ UNCHANGED <<chainVars, execVars, cliVars>>)

\* two requests handled concurrently, interleaved at every await of
\* _upsert_session; their event streams end without an event
NextSess ==
    \/ \E r \in ExecRequests, e \in Executors, x \in ContextIds,
          t \in CurrentTaskStates, m \in Messages :
          Execute(r, e, x, t, m) /\ UNCHANGED <<callVars, chainVars, cliVars>>
    \/ \E r \in ExecRequests :
          GetSessionReturns(r) /\ UNCHANGED <<callVars, chainVars, cliVars>>
    \/ \E r \in ExecRequests :
          CreateSessionReturns(r) /\ UNCHANGED <<callVars, chainVars, cliVars>>
    \/ \E r \in ExecRequests :
          StreamEnds(r) /\ UNCHANGED <<callVars, chainVars, cliVars>>

SpecSess == Init /\ [][NextSess]_vars

\* ---------------------------------------------------------------- claims
\* requests of one kind among those a call has issued
CountKind(reqs, kind) ==
    Cardinality({i \in 1..Len(reqs) : reqs[i].kind = kind})

\* the call ended after get_task answered with a Task in one of `states`
EndedOnTask(c, states) ==
    /\ pc[c] = "done"
    /\ lastPoll[c].kind = "task"
    /\ lastPoll[c].task.state \in states

\* positions <<artifact, part>> of the text parts of a list of artifacts
TextPositions(al) ==
    {p \in {<<i, j>> : i \in 1..MaxArtifacts + 1, j \in 1..MaxParts + 1} :
        /\ p[1] <= Len(al)
        /\ p[2] <= Len(al[p[1]].parts)
        /\ al[p[1]].parts[p[2]].kind = "text"}

\* p comes no later than q when artifacts, then parts, are read in order
NoLater(p, q) == p[1] < q[1] \/ (p[1] = q[1] /\ p[2] <= q[2])

\* the list of artifacts of a task (none when the field is None)
ArtifactsOf(task) ==
    IF task.artifacts = NoneV THEN <<>> ELSE task.artifacts[1]

\* the text a completed task carries, when it has a text part: that of the
\* earliest text position
TextOf(task) ==
    LET al == ArtifactsOf(task)
        p == CHOOSE p \in TextPositions(al) :
                \A q \in TextPositions(al) : NoLater(p, q)
    IN  al[p[1]].parts[p[2]].text

\* C1: whatever the remote does (success, JSON-RPC error, unexpected shape,
\* exception raised by send_message or get_task), an invocation that has
\* ended has produced one string and no exception has left it; before it
\* ends it has produced nothing.
C1_OneStringOutcome ==
    \A c \in SoloCalls :
        /\ result[c].kind \in {"none", "return"}
        /\ (pc[c] = "done") <=> (result[c].kind = "return")

\* C1 case: get_task raised and the call still ended with a string
C1_Witness ==
    /\ pc[1] = "done"
    /\ lastPoll[1] = RaisedException(ExcTimeout)
    /\ result[1].kind = "return"

\* C2: when get_task answers with a completed task the call returns the
\* text of the text part that comes first in artifact order, then part
\* order; with no text part at all it returns the fixed string.
C2_FirstTextPartReturned ==
    \A c \in SoloCalls :
        EndedOnTask(c, {"completed"}) =>
            LET al == ArtifactsOf(lastPoll[c].task)
                tp == TextPositions(al)
            IN  IF tp = {}
                   THEN result[c] = Return(NoTextArtifactMsg)
                   ELSE \E p \in tp :
                          /\ \A q \in tp : NoLater(p, q)
                          /\ result[c] = Return(al[p[1]].parts[p[2]].text)

\* C2 case: an artifact without parts and a file part are skipped, the
\* first text part is in the second artifact
C2_Witness ==
    /\ EndedOnTask(1, {"completed"})
    /\ lastPoll[1].task.artifacts =
          Some(<<[parts |-> <<>>],
                 [parts |-> <<FilePart, TextPart(TxtHola)>>]>>)
    /\ result[1] = Return(TxtHola)

\* C3: a call that read a non-terminal task k times and then a completed
\* task with text t has issued exactly k+1 get_task requests and returns t.
C3_PollsUntilCompleted ==
    \A c \in SoloCalls :
        (/\ EndedOnTask(c, {"completed"})
         /\ TextPositions(ArtifactsOf(lastPoll[c].task)) # {}) =>
            /\ polls[c] = stillWorking[c] + 1
            /\ CountKind(requests[c], "get") = stillWorking[c] + 1
            /\ CountKind(requests[c], "send") = 1
            /\ result[c] = Return(TextOf(lastPoll[c].task))

\* C3 case: two polls read a non-terminal task, the third reads "Hola"
C3_Witness ==
    /\ EndedOnTask(1, {"completed"})
    /\ stillWorking[1] = 2
    /\ polls[1] = 3
    /\ lastPoll[1].task.artifacts = Some(<<[parts |-> <<TextPart(TxtHola)>>]>>)
    /\ result[1] = Return(TxtHola)

\* C4: when send_message answers with a JSON-RPC error with message m, the
\* call ends with a string that contains m and has issued the send and
\* nothing else: no get_task, no second send.
C4_SendErrorNoPoll ==
    \A c \in SoloCalls :
        sendResponse[c].kind = "error" =>
            /\ pc[c] = "done"
            /\ result[c].kind = "return"
            /\ Contains(result[c].value, sendResponse[c].message)
            /\ polls[c] = 0
            /\ Len(requests[c]) = 1
            /\ requests[c][1].kind = "send"

\* C4 case: the send was answered with the error "agent unreachable"
C4_Witness ==
    /\ sendResponse[1] = ErrorResponse(MsgUnreachable)
    /\ pc[1] = "done"
    /\ Contains(result[1].value, MsgUnreachable)

\* the status of the task carries an error message
HasErrorMessage(task) ==
    task.error # NoneV /\ task.error # NoErrorAttribute

\* C5: when get_task answers with a task that is failed, canceled or
\* rejected, the call returns a string that contains the remote error
\* message if the status carries one, and the default text if not.
C5_FailureStringHasMessage ==
    \A c \in SoloCalls :
        EndedOnTask(c, FailureStates) =>
            /\ result[c].kind = "return"
            /\ Contains(result[c].value, TaskFailedInfix)
            /\ IF HasErrorMessage(lastPoll[c].task)
                  THEN Contains(result[c].value, lastPoll[c].task.error[1].message)
                  ELSE Contains(result[c].value, DefaultTaskError)

\* C6: when send_message answers with a success response that wraps a
\* Message, the call returns the Message's first text part if it has one
\* and an error string otherwise, and never polls.
C6_MessageTextReturned ==
    \A c \in SoloCalls :
        (sendResponse[c].kind = "message" /\ pc[c] = "done") =>
            /\ polls[c] = 0
            /\ result[c].kind = "return"
            /\ IF FirstTextInParts(sendResponse[c].parts) # NoneV
                  THEN result[c].value = FirstTextInParts(sendResponse[c].parts)[1]
                  ELSE result[c].value = FormatUnexpectedResponse(agentId[c])

\* C7: the string a call returns is never empty.
C7_ResultNonEmpty ==
    \A c \in SoloCalls :
        (pc[c] = "done" /\ messageText[c] # <<>>) =>
            /\ result[c].kind = "return"
            /\ result[c].value # <<>>

\* C8: one failed poll ends the call: once get_task has answered with a
\* JSON-RPC error or another shape, or has raised, the call has ended with
\* a string, and from then on it issues no request.
C8_FailedPollIsTerminal ==
    [][\A c \in SoloCalls :
          /\ lastPoll'[c].kind \in {"error", "other", "exception"} =>
                /\ pc'[c] = "done"
                /\ result'[c].kind = "return"
                /\ inflight'[c] = <<>>
          /\ lastPoll[c].kind \in {"error", "other", "exception"} =>
                requests'[c] = requests[c]]_vars

\* C8 case: the first poll read a working task, the second was answered
\* with a JSON-RPC error, and the call ended after two get_task requests
C8_Witness ==
    /\ pc[1] = "done"
    /\ lastPoll[1] = ErrorResponse(MsgQuota)
    /\ stillWorking[1] = 1
    /\ CountKind(requests[1], "get") = 2
    /\ Contains(result[1].value, MsgQuota)

\* C9: as long as every get_task answer carries a task that is submitted
\* or working, the call has not returned: after N such answers it has
\* issued N get_task requests and is waiting to issue the next one.
C9_KeepsPollingWhileWorking ==
    \A c \in SoloCalls :
        (/\ lastPoll[c].kind = "task"
         /\ lastPoll[c].task.state \in {"submitted", "working"}
         /\ pc[c] # "get_wait") =>
            /\ pc[c] = "sleeping"
            /\ result[c] = NoResult
            /\ stillWorking[c] = polls[c]

\* C9 case: as many non-terminal answers as the model allows polls, and the
\* call is still in the loop
C9_Witness ==
    /\ pc[1] = "sleeping"
    /\ stillWorking[1] = MaxPolls
    /\ polls[1] = MaxPolls
    /\ lastPoll[1].kind = "task"
    /\ lastPoll[1].task.state = "working"

\* C10: a call issues at most one send_message; it never has two requests
\* outstanding; and a get_task request is issued only from the sleep, with
\* no request outstanding.
C10_SequentialRequests ==
    [][\A c \in SoloCalls :
          /\ CountKind(requests'[c], "send") <= 1
          /\ Len(inflight'[c]) <= 1
          /\ polls'[c] # polls[c] =>
                /\ polls'[c] = polls[c] + 1
                /\ pc[c] = "sleeping"
                /\ inflight[c] = <<>>]_vars

\* C10 case: the second get_task request is the only one outstanding
C10_Witness ==
    /\ pc[1] = "get_wait"
    /\ polls[1] = 2
    /\ inflight[1] = <<GetTaskRequest(taskIdToPoll[1][1])>>
    /\ CountKind(requests[1], "send") = 1

\* the send of call c was answered with a Task that is completed and has
\* one artifact with one text part
SendGaveCompletedText(c) ==
    /\ sendResponse[c].kind = "task"
    /\ sendResponse[c].task.state = "completed"
    /\ sendResponse[c].task.artifacts # NoneV
    /\ Len(sendResponse[c].task.artifacts[1]) = 1
    /\ Len(sendResponse[c].task.artifacts[1][1].parts) = 1
    /\ sendResponse[c].task.artifacts[1][1].parts[1].kind = "text"

\* the text of that one part
SendGivenText(c) == sendResponse[c].task.artifacts[1][1].parts[1].text

\* C11: the call only observes the remote task.  Its requests are one
\* send_message followed by get_task requests for the id the send returned,
\* and nothing else; a poll, the step that issues a get_task and the step
\* in which it is answered, leaves every task of the remote unchanged, and
\* the answer reports the task as the remote holds it; once a terminal
\* state has been read no request is issued.
C11_OnlyObserves ==
    [][\A c \in SoloCalls :
          /\ \A i \in 1..Len(requests'[c]) :
                IF i = 1 THEN requests'[c][i].kind = "send"
                ELSE /\ requests'[c][i].kind = "get"
                     /\ sendResponse'[c].kind = "task"
                     /\ requests'[c][i].id = sendResponse'[c].task.id
          /\ (pc[c] \in {"sleeping", "get_wait"} /\ pc'[c] # pc[c]) =>
                /\ remoteTasks' = remoteTasks
                /\ (pc[c] = "get_wait" /\ lastPoll'[c].kind = "task") =>
                      lastPoll'[c].task = remoteTasks[lastPoll'[c].task.id]
          /\ (lastPoll[c].kind = "task"
                /\ lastPoll[c].task.state \in TerminalStates) =>
                /\ requests'[c] = requests[c]
                /\ pc'[c] = "done"]_vars

\* C11 case: the first poll read the task as working, the remote then
\* rejected it and the second poll read that; the requests were the send
\* and two get_task for the task's id
C11_Witness ==
    /\ EndedOnTask(1, {"rejected"})
    /\ stillWorking[1] = 1
    /\ Len(requests[1]) = 3
    /\ requests[1][2] = GetTaskRequest(sendResponse[1].task.id)
    /\ requests[1][3] = GetTaskRequest(sendResponse[1].task.id)
    /\ remoteTasks[sendResponse[1].task.id] = lastPoll[1].task

\* C12 as stated: when the send is answered with a completed Task (with a
\* non-empty id) with one artifact with one text part t, the call returns
\* exactly t.
C12_CompletedSendReturnsText ==
    \A c \in SoloCalls :
        (/\ SendGaveCompletedText(c)
         /\ sendResponse[c].task.id # ""
         /\ pc[c] = "done") =>
            result[c] = Return(SendGivenText(c))

\* C12 amended: when the send is answered with such a Task under a
\* non-empty id and the first get_task is answered with that same task,
\* the call ends after that one poll and returns exactly t.
C12_CompletedSendThenSamePoll ==
    \A c \in SoloCalls :
        (/\ SendGaveCompletedText(c)
         /\ sendResponse[c].task.id # ""
         /\ lastPoll[c] = sendResponse[c]) =>
            /\ pc[c] = "done"
            /\ polls[c] = 1
            /\ result[c] = Return(SendGivenText(c))

\* C12 case: the send returned a completed task carrying "Hola", the poll
\* read the same task
C12_Witness ==
    /\ SendGaveCompletedText(1)
    /\ SendGivenText(1) = TxtHola
    /\ lastPoll[1] = sendResponse[1]
    /\ result[1] = Return(TxtHola)

\* C18: when the send is answered with something that is neither a Task
\* success, nor a Message success, nor a JSON-RPC error, the call returns
\* "Unexpected response from <agent_id>." and issues no get_task.
C18_UnexpectedSendResponse ==
    \A c \in SoloCalls :
        sendResponse[c].kind = "other" =>
            /\ pc[c] = "done"
            /\ result[c] =
                 Return(UnexpectedResponsePrefix \o agentId[c] \o Period)
            /\ polls[c] = 0
            /\ CountKind(requests[c], "get") = 0

\* C18 case: the search agent's send came back in an unknown shape
C18_Witness ==
    /\ sendResponse[1] = OtherResponse
    /\ agentId[1] = BRAVE_SEARCH_AGENT_ID
    /\ result[1] =
         Return(UnexpectedResponsePrefix \o BRAVE_SEARCH_AGENT_ID \o Period)

\* C17 as stated: the fixed "no text" string is returned only when a poll
\* read a completed task without any text part.
C17_NoTextStringOnlyWithoutText ==
    \A c \in SoloCalls :
        (pc[c] = "done" /\ result[c] = Return(NoTextArtifactMsg)) =>
            /\ EndedOnTask(c, {"completed"})
            /\ TextPositions(ArtifactsOf(lastPoll[c].task)) = {}

\* C17 amended: the fixed "no text" string is returned only when a poll
\* read a completed task that has no text part or whose first text part
\* carries that very text; it is never returned for a failed, canceled or
\* rejected task, for an error or unexpected answer to the send or to a
\* poll, or for an exception.
C17_NoTextStringOnlyWhenCompleted ==
    \A c \in SoloCalls :
        (pc[c] = "done" /\ result[c] = Return(NoTextArtifactMsg)) =>
            /\ sendResponse[c].kind = "task"
            /\ EndedOnTask(c, {"completed"})
            /\ \/ TextPositions(ArtifactsOf(lastPoll[c].task)) = {}
               \/ TextOf(lastPoll[c].task) = NoTextArtifactMsg

\* C17 case: a completed task without artifacts gave the fixed string
C17_Witness ==
    /\ EndedOnTask(1, {"completed"})
    /\ lastPoll[1].task.artifacts = NoneV
    /\ result[1] = Return(NoTextArtifactMsg)

\* the string a call must return for the answer to its last get_task,
\* written out from the answer alone
OutcomeOfPoll(agent_id, resp) ==
    IF resp.kind = "exception"
       THEN ExceptionCallingPrefix \o agent_id \o ColonSep \o resp.msg
    ELSE IF resp.kind = "error"
       THEN ErrorPollingPrefix \o agent_id \o TaskColonInfix \o resp.message
    ELSE IF resp.kind = "other"
       THEN UnexpectedPollingPrefix \o agent_id \o Period
    ELSE IF resp.task.state = "completed"
       THEN IF TextPositions(ArtifactsOf(resp.task)) = {}
               THEN NoTextArtifactMsg
               ELSE TextOf(resp.task)
    ELSE IF resp.task.error = NoErrorAttribute
       THEN FormatException(agent_id, NoErrorAttributeText)
    ELSE agent_id \o TaskFailedInfix \o
           (IF resp.task.error = NoneV THEN DefaultTaskError
                                       ELSE resp.task.error[1].message)

\* C20: after a send answered with a Task under a non-empty id, the call
\* does not return before it has issued a get_task, and what it returns is
\* fixed by the answer to its last get_task alone, whatever status and
\* artifacts the send response carried.
C20_OutcomeFromPollsOnly ==
    \A c \in SoloCalls :
        (sendResponse[c].kind = "task" /\ sendResponse[c].task.id # "") =>
            IF pc[c] = "done"
               THEN /\ polls[c] >= 1
                    /\ CountKind(requests[c], "get") >= 1
                    /\ lastPoll[c] # NoResponse
                    /\ result[c] = Return(OutcomeOfPoll(agentId[c], lastPoll[c]))
               ELSE /\ pc[c] \in {"sleeping", "get_wait"}
                    /\ result[c] = NoResult

\* C20 case: the send response was already completed with a text, the poll
\* reported the task failed, and the call returned the failure string
C20_Witness ==
    /\ SendGaveCompletedText(1)
    /\ SendGivenText(1) = TxtNews
    /\ EndedOnTask(1, {"failed"})
    /\ polls[1] = 1
    /\ agentId[1] = BRAVE_SEARCH_AGENT_ID
    /\ result[1] =
         Return(BRAVE_SEARCH_AGENT_ID \o TaskFailedInfix \o MsgQuota)

\* the local variables of one invocation
LocalState(c) ==
    <<pc[c], agentId[c], messageText[c], messageId[c], taskIdToPoll[c],
      result[c], requests[c], inflight[c], sendResponse[c], lastPoll[c],
      polls[c], stillWorking[c]>>

\* the string a call must return for the answer to its send when that
\* answer ends the call, written out from the answer alone
OutcomeOfSend(agent_id, resp) ==
    IF resp.kind = "exception"
       THEN ExceptionCallingPrefix \o agent_id \o ColonSep \o resp.msg
    ELSE IF resp.kind = "error"
       THEN ErrorCallingPrefix \o agent_id \o ColonSep \o resp.message
    ELSE IF resp.kind = "task"
       THEN FailedToGetResponsePrefix \o agent_id \o Period
    ELSE UnexpectedResponsePrefix \o agent_id \o Period

\* the string call c returns when it runs alone and receives the answers
\* it has received
OutcomeAlone(c) ==
    IF lastPoll[c] = NoResponse
       THEN OutcomeOfSend(agentId[c], sendResponse[c])
       ELSE OutcomeOfPoll(agentId[c], lastPoll[c])

\* C15: two invocations that run concurrently share no local state: a step
\* of one leaves the other's variables alone, each polls only the task id
\* its own send returned, and each returns what it would have returned
\* alone for the answers it received.
C15_ConcurrentCallsIndependent ==
    [][\A c \in AllCalls :
          /\ pc'[c] = pc[c] => LocalState(c)' = LocalState(c)
          /\ \A i \in 1..Len(requests'[c]) :
                requests'[c][i].kind = "get" =>
                    /\ sendResponse'[c].kind = "task"
                    /\ requests'[c][i].id = sendResponse'[c].task.id
          /\ pc'[c] = "done" => result'[c] = Return(OutcomeAlone(c)')]_vars

\* C15 case: call 2 was started after call 1 and ended before it; both
\* polled, each its own task, and they ended differently
C15_Witness ==
    /\ pc[1] = "done" /\ pc[2] = "get_wait"
    /\ messageId[1] = 1 /\ messageId[2] = 2
    /\ polls[1] = 1 /\ polls[2] = 2
    /\ sendResponse[1].task.id = "t2" /\ sendResponse[2].task.id = "t1"
    /\ requests[1][2] = GetTaskRequest("t2")
    /\ requests[2][3] = GetTaskRequest("t1")
    /\ result[1] = Return(TxtNews)

\* an answer without the id of the task it carries
WithoutTaskId(resp) ==
    IF resp.kind = "task" THEN [resp EXCEPT !.task.id = "t"] ELSE resp

\* C16: two invocations with the same agent_id and message_text that
\* received the same answers (up to the task's id) return the same string,
\* the one fixed by the agent id and the last answer alone, and their
\* messages carry different message ids.
C16_SameAnswersSameOutcome ==
    (/\ pc[1] = "done" /\ pc[2] = "done"
     /\ agentId[1] = agentId[2]
     /\ messageText[1] = messageText[2]
     /\ WithoutTaskId(sendResponse[1]) = WithoutTaskId(sendResponse[2])
     /\ polls[1] = polls[2]
     /\ WithoutTaskId(lastPoll[1]) = WithoutTaskId(lastPoll[2])) =>
        /\ result[1] = result[2]
        /\ result[1] = Return(OutcomeAlone(1))
        /\ messageId[1] # messageId[2]
        /\ requests[1][1].messageId # requests[2][1].messageId

\* C16 case: both calls polled twice and read the same completed task
C16_Witness ==
    /\ pc[1] = "done" /\ pc[2] = "done"
    /\ agentId[1] = agentId[2]
    /\ polls[1] = 2 /\ polls[2] = 2
    /\ WithoutTaskId(sendResponse[1]) = WithoutTaskId(sendResponse[2])
    /\ EndedOnTask(1, {"completed"})
    /\ WithoutTaskId(lastPoll[1]) = WithoutTaskId(lastPoll[2])
    /\ result[1] = Return(TxtNews)
    /\ result[2] = Return(TxtNews)
    /\ messageId[1] # messageId[2]

\* the search delegation succeeded: it ended on a completed task and returned
\* a text extracted from one of its parts
SearchSucceeded ==
    /\ EndedOnTask(SearchCall, {"completed"})
    /\ lastPoll[SearchCall].task.artifacts # NoneV
    /\ FirstTextInArtifacts(lastPoll[SearchCall].task.artifacts[1]) # NoneV

\* target_language is Spanish or French, in any case of letters
LanguageSupported == Lower(targetLanguage) \in {SpanishLower, FrenchLower}

\* the translator the function picks for target_language
TranslatorFor(target_language) ==
    IF Lower(target_language) = SpanishLower THEN SPANISH_AGENT_ID
                                            ELSE FRENCH_AGENT_ID

\* C13: in search_and_translate_news_function the translation request is
\* sent only after the search call has returned, its text is "News results
\* for '<search_query>': <search result>", and with a supported language and
\* a successful search the function returns the translation call's outcome.
C13_SearchThenTranslate ==
    [][/\ (pc[TranslateCall] = "idle" /\ pc'[TranslateCall] # "idle") =>
            /\ pc[SearchCall] = "done"
            /\ inflight[SearchCall] = <<>>
            /\ requests'[TranslateCall] =
                  <<SendRequest(TranslatorFor(targetLanguage),
                                FormatNewsResults(searchQuery,
                                                  result[SearchCall].value),
                                messageId'[TranslateCall])>>
       /\ (chainPc # "done" /\ chainPc' = "done"
              /\ LanguageSupported /\ SearchSucceeded) =>
            /\ pc[TranslateCall] = "done"
            /\ translatedNews' = Some(result[TranslateCall].value)]_vars

\* C19: a translation request is issued exactly when the search succeeded
\* and the language is supported; when the search call ended in an error
\* the function returns "Failed to get news: <outcome>".
C19_TranslateIffSearchSucceeded ==
    [][(chainPc = "searching" /\ chainPc' # "searching") =>
          /\ pc'[TranslateCall] # "idle" <=>
                (SearchSucceeded /\ LanguageSupported)
          /\ ~SearchSucceeded =>
                /\ requests'[TranslateCall] = <<>>
                /\ translatedNews' =
                      Some(FormatFailedNews(result[SearchCall].value))]_vars

\* C14: whatever executor handles the task and whatever state the task is
\* in, cancel raises the unsupported-operation error, enqueues no update and
\* changes neither the task's state nor anything else of the executor.
C14_CancelUnsupported ==
    [][\A r \in ExecRequests :
          cancels'[r] # cancels[r] /\ cancels'[r] # 0 =>
              /\ cancelOutcome'[r].kind = "raise"
              /\ cancelOutcome'[r].exc.error = "UnsupportedOperationError"
              /\ eventQueue' = eventQueue
              /\ TaskStateOf(r)' = TaskStateOf(r)
              /\ <<execPc, currentTask, eventsSeen, sessions>>' =
                    <<execPc, currentTask, eventsSeen, sessions>>]_vars

\* C14 case: the search executor's task was completed and cancel was called
\* twice; the task is still completed and the queue ends with that update
C14_Witness ==
    /\ executor[1] = "search"
    /\ execPc[1] = "returned"
    /\ cancels[1] = 2
    /\ cancelOutcome[1] = Raise(UnsupportedOperationError("search"))
    /\ TaskStateOf(1) = "completed"
    /\ eventQueue[1] = <<StatusUpdate("submitted", NoneV),
                         StatusUpdate("working", NoneV),
                         ArtifactUpdate("text"),
                         StatusUpdate("completed", NoneV)>>

\* the executors that forward interim updates
InterimForwarders == {"orchestrator", "search", "spanish"}

\* the updates execute enqueues before it reads the first event
QueueHead(current_task) ==
    IF current_task = "none"
       THEN <<StatusUpdate("submitted", NoneV), StatusUpdate("working", NoneV)>>
       ELSE <<StatusUpdate("working", NoneV)>>

\* a working status update that carries a message
IsInterimStatus(u) ==
    u.kind = "status" /\ u.state = "working" /\ u.message # NoneV

Completed == StatusUpdate("completed", NoneV)

\* the queue of request r reads: head, interim updates, then nothing or one
\* artifact followed by completed
InOrder(r) ==
    LET q == eventQueue[r]
        h == QueueHead(currentTask[r])
    IN  \/ execPc[r] = "idle" /\ q = <<>>
        \/ /\ Len(q) >= Len(h)
           /\ SubSeq(q, 1, Len(h)) = h
           /\ \E k \in Len(h)..Len(q) :
                /\ \A i \in (Len(h) + 1)..k : IsInterimStatus(q[i])
                /\ \/ k = Len(q)
                   \/ /\ Len(q) = k + 2
                      /\ q[k + 1].kind = "artifact"
                      /\ q[k + 2] = Completed
                      /\ execPc[r] = "returned"

\* the updates a step adds to the queue of request r
Added(r) ==
    SubSeq(eventQueue'[r], Len(eventQueue[r]) + 1, Len(eventQueue'[r]))

\* C21: in the orchestrator, search and Spanish executors the queue always
\* reads submitted (only without a current task), working, interim working
\* updates, then at most one artifact followed by completed.  A final event
\* adds exactly one artifact followed by completed and ends the loop, an
\* event that carries function calls adds nothing, any other event adds at
\* most one interim update, and once completed is in the queue nothing is
\* added to it.
C21_UpdatesInOrder ==
    [][\A r \in ExecRequests : executor'[r] \in InterimForwarders =>
          /\ InOrder(r)'
          /\ eventsSeen'[r] = eventsSeen[r] + 1 =>
                LET ev == lastEvent'[r][1] IN
                  /\ ev.final =>
                        /\ execPc'[r] = "returned"
                        /\ Len(Added(r)) = 2
                        /\ Added(r)[1].kind = "artifact"
                        /\ Added(r)[2] = Completed
                  /\ ev.calls => Added(r) = <<>>
                  /\ (~ev.final /\ ~ev.calls) =>
                        \/ Added(r) = <<>>
                        \/ Len(Added(r)) = 1 /\ IsInterimStatus(Added(r)[1])
          /\ (execPc[r] = "returned" /\ execPc'[r] = "returned") =>
                eventQueue'[r] = eventQueue[r]]_vars

\* the last event request r read was not a final response (or none was read)
NoFinalEventLast(r) == lastEvent[r] = NoneV \/ ~lastEvent[r][1].final

\* C22: a terminal status enters the queue only with a final event.  When
\* the event stream ends and the last event was not final, execute has
\* returned, the task is working, and the client that polls it has read no
\* terminal state and has not returned.
C22_TerminalOnlyByFinalEvent ==
    \A r \in SoloRequests :
       /\ TaskStateOf(r) \in TerminalStates => ~NoFinalEventLast(r)
       /\ (execPc[r] = "returned" /\ NoFinalEventLast(r)) =>
             /\ TaskStateOf(r) = "working"
             /\ remoteTasks["t1"].state = "working"
             /\ pc[1] # "done"
             /\ lastPoll[1].kind = "task" =>
                   lastPoll[1].task.state \notin TerminalStates

\* C22 case: the search executor's stream ended after an interim event;
\* the client has polled MaxPolls times and read working each time
C22_Witness ==
    /\ executor[1] = "search"
    /\ execPc[1] = "returned"
    /\ eventsSeen[1] = 1
    /\ NoFinalEventLast(1)
    /\ polls[1] = MaxPolls
    /\ stillWorking[1] = MaxPolls
    /\ pc[1] = "sleeping"
    /\ lastPoll[1].task.state = "working"

\* `event.content and event.content.parts` is falsy: no content, or no parts
NoContentOrParts(ev) == ev.content \in {"none", "parts_none", "parts_empty"}

\* C23: in the code-interpreter executor a final event without content or
\* parts adds completed alone to the queue and ends the event loop.
C23_FinalWithoutPartsCompletes ==
    [][\A r \in ExecRequests :
          (/\ executor'[r] = "code_interpreter"
           /\ eventsSeen'[r] = eventsSeen[r] + 1
           /\ lastEvent'[r][1].final
           /\ NoContentOrParts(lastEvent'[r][1])) =>
              /\ Added(r) = <<Completed>>
              /\ execPc'[r] = "returned"]_vars

\* C24: when get_task is answered, poll_task_until_completion returns the
\* Task if its state is completed, failed, canceled or rejected, returns
\* None for a JSON-RPC error or any other shape, and otherwise sleeps and
\* polls again.
C24_CliReturnsOnTerminal ==
    [][(cliPc = "get_wait" /\ cliPc' # "get_wait"
          /\ cliLast'.kind # "exception") =>
          IF cliLast'.kind = "task"
             THEN IF cliLast'.task.state \in TerminalStates
                     THEN /\ cliPc' = "done"
                          /\ cliResult' = Return(Some(cliLast'.task))
                     ELSE /\ cliPc' = "sleeping"
                          /\ cliResult' = NoResult
             ELSE /\ cliPc' = "done"
                  /\ cliResult' = Return(NoneV)]_vars

\* C25: once the remote task is in a terminal state while the call is in
\* its poll loop (with a poll left to issue, or one in flight), the call
\* returns.
C25_TerminalTaskEndsCall ==
    (/\ remoteTasks["t1"].state \in TerminalStates
     /\ \/ pc[1] = "get_wait"
        \/ pc[1] = "sleeping" /\ polls[1] < MaxPolls)
        ~> (pc[1] = "done")

\* C25 case: the call read working once, the task was then rejected, and
\* the second poll ended the call
C25_Witness ==
    /\ pc[1] = "done"
    /\ polls[1] = 2
    /\ stillWorking[1] = 1
    /\ sendResponse[1].kind = "task"
    /\ sendResponse[1].task.state = "submitted"
    /\ lastPoll[1].kind = "task"
    /\ lastPoll[1].task.state = "rejected"
    /\ result[1] = Return(FormatTaskFailed(agentId[1], DefaultTaskError))

\* the search call ended in an error outcome: it did not end on a
\* completed task
SearchEndedInError ==
    pc[SearchCall] = "done" /\ ~EndedOnTask(SearchCall, {"completed"})

\* C26: with a target language other than Spanish and French no translation
\* request is sent; the "Unsupported translation language" message is
\* returned when the search succeeded, and never after a search that ended
\* in an error.
C26_UnsupportedLanguage ==
    [][(chainPc = "searching" /\ chainPc' # "searching"
          /\ ~LanguageSupported) =>
          /\ requests'[TranslateCall] = <<>>
          /\ chainPc' = "done"
          /\ SearchSucceeded =>
                translatedNews' = Some(FormatUnsupportedLanguage(targetLanguage))
          /\ translatedNews' = Some(FormatUnsupportedLanguage(targetLanguage)) =>
                ~SearchEndedInError]_vars

\* C27: create_session is called at most once for a session id, however
\* the requests that carry it are interleaved.
C27_SessionCreatedOnce ==
    \A k \in SessionKeys : createCalls[k] <= 1

\* C28: in the orchestrator, search and Spanish executors a non-final event
\* without function calls and without content adds no update to the queue
\* and raises nothing: the loop goes on to the next event.
C28_EmptyInterimEventSkipped ==
    [][\A r \in ExecRequests :
          ( /\ executor[r] \in InterimForwarders
            /\ execPc[r] = "events"
            /\ eventsSeen'[r] = eventsSeen[r] + 1
            /\ ~lastEvent'[r][1].final
            /\ ~lastEvent'[r][1].calls
            /\ lastEvent'[r][1].content = "none" )
          => /\ Added(r) = <<>>
             /\ execPc'[r] = "events"]_vars

====
